---- MODULE Spec2Model ----
(***************************************************************************)
(* Model of src/launcher/java_md.c, the Windows platform glue of the java  *)
(* launcher: JRE discovery (GetApplicationHome, GetJREPath and the         *)
(* registry probe GetPublicJREHome), JVM library location (GetJVMPath),    *)
(* library loading (LoadJavaVM) and the interval timer (CounterGet,        *)
(* Counter2Micros).                                                        *)
(*                                                                         *)
(* C strings are modelled byte for byte: a buffer is a sequence of         *)
(* one-character strings in which NUL marks the terminator, and the C      *)
(* string held by a buffer is the prefix before its first NUL.  jlong      *)
(* values are 64-bit two's complement words held as four 16-bit limbs,     *)
(* least significant first.                                                *)
(***************************************************************************)
EXTENDS Integers, Sequences, FiniteSets, TLC

VARIABLES
    exe,        \* what GetModuleFileName(0, ...) yields: the launcher's path
    fs,         \* the files that exist (stat() == 0)
    reg,        \* the registry below HKLM\Software\JavaSoft\Java Runtime Environment
    debug,      \* the launcher's externally owned debug flag
    dlls,       \* path -> set of exported symbols, for every loadable library
    handles,    \* registry handles currently open in the process
    badClose,   \* a RegCloseKey was issued on a handle that is not open
    loaded,     \* libraries mapped into the process (never unmapped)
    call,       \* the last launcher entry point called, with its results
    counterAvailable,    \* static jboolean counterAvailable
    counterInitialized,  \* static jboolean counterInitialized
    counterFrequency,    \* static LARGE_INTEGER counterFrequency
    qpfCalls,   \* number of QueryPerformanceFrequency calls made so far
    tcall       \* the last timer entry point called, with argument and result

lvars == <<exe, fs, reg, debug, dlls, handles, badClose, loaded, call>>
tvars == <<counterAvailable, counterInitialized, counterFrequency, qpfCalls, tcall>>
vars == <<exe, fs, reg, debug, dlls, handles, badClose, loaded, call,
          counterAvailable, counterInitialized, counterFrequency, qpfCalls, tcall>>

(***************************************************************************)
(* Bounds.                                                                 *)
(***************************************************************************)
\* Capacity of the path buffers (the source's MAXPATHLEN, scaled down).
MAXPATHLEN == 32

(***************************************************************************)
(* Characters, C strings and buffers.                                      *)
(***************************************************************************)
NUL == "NUL"
BS == "\\"

JAVA_DLL == <<"j", "a", "v", "a", ".", "d", "l", "l">>
JVM_DLL == <<"j", "v", "m", ".", "d", "l", "l">>
DOTRELEASE == <<"1", ".", "3">>

\* An uninitialised buffer of n bytes: no terminator anywhere.
Garbage(n) == [i \in 1..n |-> "?"]

Min(a, b) == IF a < b THEN a ELSE b
Max(a, b) == IF a > b THEN a ELSE b

\* Op applied to the value of v, computed once (a local variable of the code).
With(v, Op(_)) == CHOOSE r \in { Op(x) : x \in {v} } : TRUE

\* Index of the first NUL of b, or Len(b) + 1 when there is none.
FirstNul(b) ==
    IF \E i \in 1..Len(b) : b[i] = NUL
    THEN CHOOSE i \in 1..Len(b) : b[i] = NUL /\ \A j \in 1..(i - 1) : b[j] # NUL
    ELSE Len(b) + 1

\* The C string a buffer holds.
CStr(b) == SubSeq(b, 1, FirstNul(b) - 1)

\* Store the bytes of data into b from offset off (0-based), keeping the rest.
Write(b, off, data) ==
    [i \in 1..Max(Len(b), off + Len(data)) |->
        IF i > off /\ i <= off + Len(data) THEN data[i - off] ELSE b[i]]

\* sprintf(buf, "%s", s): the characters and a terminator, from the start.
sprintf(b, s) == Write(b, 0, s \o <<NUL>>)

\* strcat(buf, s): s and a terminator over the terminator of buf.
strcat(b, s) == Write(b, FirstNul(b) - 1, s \o <<NUL>>)

\* strrchr(buf, c) as an index into buf; 0 stands for the null pointer.
strrchr(b, c) ==
    LET s == CStr(b)
    IN IF \E i \in 1..Len(s) : s[i] = c
       THEN CHOOSE i \in 1..Len(s) : s[i] = c /\ \A j \in (i + 1)..Len(s) : s[j] # c
       ELSE 0

\* strcmp(buf, s) != 0
strcmp_Prefix(b, s) == IF SubSeq(CStr(b), 1, Min(Len(s), Len(CStr(b)))) = s THEN 0 ELSE 1
strcmp(b, s) == IF CStr(b) = s THEN 0 ELSE 1

\* stat(path, &s) == 0
stat(path) == IF path \in fs THEN 0 ELSE -1

(***************************************************************************)
(* GetApplicationHome (java_md.c:142-156).  GetModuleFileName stores the   *)
(* fully qualified path of the executable, which fits the buffer and       *)
(* holds at least one backslash.                                           *)
(***************************************************************************)
GetModuleFileName(buf, bufsize) == sprintf(buf, exe)

\* Mutant: only the file name is removed.
GetApplicationHome_OneStrip(buf, bufsize) ==
    With(GetModuleFileName(buf, bufsize), LAMBDA b1 :
    [ret |-> TRUE, buf |-> [b1 EXCEPT ![strrchr(b1, BS)] = NUL]])

GetApplicationHome(buf, bufsize) ==
    With(GetModuleFileName(buf, bufsize), LAMBDA b1 :
    \* remove .exe file name
    With([b1 EXCEPT ![strrchr(b1, BS)] = NUL], LAMBDA b2 :
    With(strrchr(b2, BS), LAMBDA cp :
    IF cp = 0
    THEN [ret |-> FALSE, buf |-> [b2 EXCEPT ![1] = NUL]]
    \* remove the bin\ part
    ELSE [ret |-> TRUE, buf |-> [b2 EXCEPT ![cp] = NUL]])))

(***************************************************************************)
(* The registry (java_md.c:200-277).  A session s carries the open handle  *)
(* table, the misuse flag and the log of the registry calls made.  A       *)
(* handle is a pair <<id, node>>; node is "root" for JRE_KEY and "sub" for *)
(* its version child key.  A REG_SZ value is stored with its terminator.   *)
(***************************************************************************)
Absent == [type |-> "none", data |-> <<>>]
SZ(s) == [type |-> "REG_SZ", data |-> s \o <<NUL>>]
DWORD(d) == [type |-> "REG_DWORD", data |-> d]

NewHandle(hs) == CHOOSE h \in 1..(Cardinality(hs) + 1) : \A e \in hs : e[1] # h

RegOpenKeyEx(s, node, exists) ==
    IF exists
    THEN LET h == NewHandle(s.handles)
         IN [ok |-> TRUE, key |-> h,
             s |-> [s EXCEPT !.handles = @ \cup {<<h, node>>},
                             !.log = Append(@, <<"RegOpenKeyEx", node, h>>)]]
    ELSE [ok |-> FALSE, key |-> 0,
          s |-> [s EXCEPT !.log = Append(@, <<"RegOpenKeyEx", node, 0>>)]]

RegCloseKey(s, key) ==
    [s EXCEPT !.handles = {e \in @ : e[1] # key},
              !.bad = @ \/ (\A e \in s.handles : e[1] # key),
              !.log = Append(@, <<"RegCloseKey", "", key>>)]

\* The value called name under the key a handle denotes.
RegValue(s, key, name) ==
    IF \E e \in s.handles : e[1] = key
    THEN LET node == (CHOOSE e \in s.handles : e[1] = key)[2]
         IN IF node = "root" /\ name = "CurrentVersion" THEN reg.CurrentVersion
            ELSE IF node = "sub" /\ name = "JavaHome" THEN reg.JavaHome
            ELSE IF node = "sub" /\ name = "MicroVersion" THEN reg.MicroVersion
            ELSE Absent
    ELSE Absent

GetStringFromRegistry(s, key, name, buf, bufsize) ==
    LET v == RegValue(s, key, name)
        s1 == [s EXCEPT !.log = Append(@, <<"RegQueryValueEx", name, key>>)]
    IN IF v.type # "none" /\ v.type = "REG_SZ" /\ Len(v.data) < bufsize
       THEN [ret |-> TRUE, buf |-> Write(buf, 0, v.data), s |-> s1]
       ELSE [ret |-> FALSE, buf |-> buf, s |-> s1]

\* Mutant: the first handle is closed twice and the second never.
CloseKeys_KeyTwice(s, key, subkey) == RegCloseKey(RegCloseKey(s, key), key)

\* RegCloseKey(key); RegCloseKey(subkey);
CloseKeys(s, key, subkey) == RegCloseKey(RegCloseKey(s, key), subkey)

ErrMismatch == "CurrentVersion has value '%s', but '%s' is required."

\* The result of a call: return value, output buffer, the lines written to
\* stderr and stdout, the paths given to stat, and the registry session.
Result(ret, buf, err, out, stats, s) ==
    [ret |-> ret, buf |-> buf, err |-> err, out |-> out, stats |-> stats, s |-> s]

\* The lines the debug flag adds to stdout once JavaHome has been read.
DebugVersion(version, g3) ==
    (IF g3.ret THEN <<>> ELSE << <<"Warning: Can't read MicroVersion">> >>)
    \o << <<"Version major.minor.micro = %s.%s", CStr(version),
            IF g3.ret THEN CStr(g3.buf) ELSE <<>>>> >>

GetPublicJREHome(buf, bufsize, s0) ==
    \* Find the current version of the JRE
    With(RegOpenKeyEx(s0, "root", reg.rootOpens), LAMBDA o1 :
    IF ~o1.ok
    THEN Result(FALSE, buf, << <<"Error opening registry key">> >>, <<>>, <<>>, o1.s)
    ELSE
    With(GetStringFromRegistry(o1.s, o1.key, "CurrentVersion",
                               Garbage(MAXPATHLEN), MAXPATHLEN), LAMBDA g1 :
    IF ~g1.ret
    THEN Result(FALSE, buf,
                << <<"Failed reading value of registry key: CurrentVersion">> >>,
                <<>>, <<>>, RegCloseKey(g1.s, o1.key))
    ELSE IF strcmp(g1.buf, DOTRELEASE) # 0
    THEN Result(FALSE, buf, << <<ErrMismatch, CStr(g1.buf), DOTRELEASE>> >>,
                <<>>, <<>>, RegCloseKey(g1.s, o1.key))
    ELSE
    \* Find directory where the current version is installed.
    With(RegOpenKeyEx(g1.s, "sub", CStr(g1.buf) \in reg.subkeys), LAMBDA o2 :
    IF ~o2.ok
    THEN Result(FALSE, buf, << <<"Error opening registry key '%s'", CStr(g1.buf)>> >>,
                <<>>, <<>>, RegCloseKey(o2.s, o1.key))
    ELSE
    With(GetStringFromRegistry(o2.s, o2.key, "JavaHome", buf, bufsize), LAMBDA g2 :
    IF ~g2.ret
    THEN Result(FALSE, g2.buf,
                << <<"Failed reading value of registry key: %s\\JavaHome",
                     CStr(g1.buf)>> >>,
                <<>>, <<>>, CloseKeys(g2.s, o1.key, o2.key))
    ELSE IF debug
    THEN With(GetStringFromRegistry(g2.s, o2.key, "MicroVersion",
                                    Garbage(MAXPATHLEN), MAXPATHLEN), LAMBDA g3 :
         Result(TRUE, g2.buf, <<>>, DebugVersion(g1.buf, g3), <<>>,
                CloseKeys(g3.s, o1.key, o2.key)))
    ELSE Result(TRUE, g2.buf, <<>>, <<>>, <<>>, CloseKeys(g2.s, o1.key, o2.key))))))

(***************************************************************************)
(* GetJREPath (java_md.c:45-77).                                           *)
(***************************************************************************)
BinJavaDll == <<BS, "b", "i", "n", BS>> \o JAVA_DLL
JreBinJavaDll == <<BS, "j", "r", "e", BS, "b", "i", "n", BS>> \o JAVA_DLL
Jre == <<BS, "j", "r", "e">>

ErrNoJavaDll == <<"Error: could not find java.dll">>
Found(path) == IF debug THEN << <<"JRE path is %s", CStr(path)>> >> ELSE <<>>

\* The tail of GetJREPath: the registry probe, then the error line or found.
PublicJRE(path, pathsize, stats, s0) ==
    With(GetPublicJREHome(path, pathsize, s0), LAMBDA pub :
    IF pub.ret
    THEN Result(TRUE, pub.buf, <<>>, pub.out \o Found(pub.buf), stats, pub.s)
    ELSE Result(FALSE, pub.buf, pub.err \o <<ErrNoJavaDll>>, pub.out, stats, pub.s))

\* Mutant: the private JRE is probed before the co-located one.
GetJREPath_JreFirst(path, pathsize, s0) ==
    With(GetApplicationHome(path, pathsize), LAMBDA app :
    With(CStr(app.buf) \o JreBinJavaDll, LAMBDA javadll1 :
    With(CStr(app.buf) \o BinJavaDll, LAMBDA javadll2 :
    IF app.ret /\ stat(javadll1) = 0
    THEN Result(TRUE, strcat(app.buf, Jre), <<>>, Found(strcat(app.buf, Jre)),
                <<javadll1>>, s0)
    ELSE IF app.ret /\ stat(javadll2) = 0
    THEN Result(TRUE, app.buf, <<>>, Found(app.buf), <<javadll1, javadll2>>, s0)
    ELSE PublicJRE(app.buf, pathsize,
                   IF app.ret THEN <<javadll1, javadll2>> ELSE <<>>, s0))))

\* Mutant: the goto after strcat is missing, so a private JRE falls through
\* to the registry probe.
GetJREPath_FallThrough(path, pathsize, s0) ==
    With(GetApplicationHome(path, pathsize), LAMBDA app :
    With(CStr(sprintf(Garbage(MAXPATHLEN), CStr(app.buf) \o BinJavaDll)), LAMBDA javadll1 :
    With(CStr(sprintf(Garbage(MAXPATHLEN), CStr(app.buf) \o JreBinJavaDll)), LAMBDA javadll2 :
    IF app.ret /\ stat(javadll1) = 0
    THEN Result(TRUE, app.buf, <<>>, Found(app.buf), <<javadll1>>, s0)
    ELSE IF app.ret /\ stat(javadll2) = 0
    THEN PublicJRE(strcat(app.buf, Jre), pathsize, <<javadll1, javadll2>>, s0)
    ELSE PublicJRE(app.buf, pathsize,
                   IF app.ret THEN <<javadll1, javadll2>> ELSE <<>>, s0))))

GetJREPath(path, pathsize, s0) ==
    With(GetApplicationHome(path, pathsize), LAMBDA app :
    \* Is JRE co-located with the application?
    With(CStr(sprintf(Garbage(MAXPATHLEN), CStr(app.buf) \o BinJavaDll)), LAMBDA javadll1 :
    \* Does this app ship a private JRE in <apphome>\jre directory?
    With(CStr(sprintf(Garbage(MAXPATHLEN), CStr(app.buf) \o JreBinJavaDll)), LAMBDA javadll2 :
    IF app.ret /\ stat(javadll1) = 0
    THEN Result(TRUE, app.buf, <<>>, Found(app.buf), <<javadll1>>, s0)
    ELSE IF app.ret /\ stat(javadll2) = 0
    THEN Result(TRUE, strcat(app.buf, Jre), <<>>, Found(strcat(app.buf, Jre)),
                <<javadll1, javadll2>>, s0)
    \* Look for a public JRE on this machine.
    ELSE PublicJRE(app.buf, pathsize,
                   IF app.ret THEN <<javadll1, javadll2>> ELSE <<>>, s0))))

(***************************************************************************)
(* GetJVMPath (java_md.c:84-95).                                           *)
(***************************************************************************)
Bin == <<BS, "b", "i", "n", BS>>

\* Mutant: a miss falls back to <jrepath>\bin\jvm.dll.
GetJVMPath_Fallback(jrepath, jvmtype, jvmpath, jvmpathsize) ==
    With(sprintf(jvmpath, jrepath \o Bin \o jvmtype \o <<BS>> \o JVM_DLL), LAMBDA p1 :
    With(sprintf(p1, jrepath \o Bin \o JVM_DLL), LAMBDA p2 :
    IF stat(CStr(p1)) = 0
    THEN [ret |-> TRUE, buf |-> p1, stats |-> <<CStr(p1)>>]
    ELSE [ret |-> stat(CStr(p2)) = 0, buf |-> p2, stats |-> <<CStr(p1), CStr(p2)>>]))

GetJVMPath(jrepath, jvmtype, jvmpath, jvmpathsize) ==
    With(sprintf(jvmpath, jrepath \o Bin \o jvmtype \o <<BS>> \o JVM_DLL), LAMBDA p :
    IF stat(CStr(p)) = 0
    THEN [ret |-> TRUE, buf |-> p, stats |-> <<CStr(p)>>]
    ELSE [ret |-> FALSE, buf |-> p, stats |-> <<CStr(p)>>])

(***************************************************************************)
(* LoadJavaVM (java_md.c:100-126).  LoadLibrary maps a library that is in  *)
(* dlls; GetProcAddress yields a non-null address for an exported symbol   *)
(* and 0 otherwise.                                                        *)
(***************************************************************************)
LoadLibrary(jvmpath) == IF jvmpath \in DOMAIN dlls THEN jvmpath ELSE <<>>

GetProcAddress(handle, name) ==
    IF name \in dlls[handle]
    THEN (IF name = "JNI_CreateJavaVM" THEN 1 ELSE 2)
    ELSE 0

NoFunctions == [CreateJavaVM |-> 0, GetDefaultJavaVMInitArgs |-> 0]

\* Mutant: the symbol test uses && in place of ||.
LoadJavaVM_And(jvmpath, ifn) ==
    LET handle == LoadLibrary(jvmpath)
        ifn1 == [CreateJavaVM |-> GetProcAddress(handle, "JNI_CreateJavaVM"),
                 GetDefaultJavaVMInitArgs |->
                     GetProcAddress(handle, "JNI_GetDefaultJavaVMInitArgs")]
    IN IF handle = <<>>
       THEN [ret |-> FALSE, ifn |-> ifn, err |-> << <<"Error loading: %s", jvmpath>> >>,
             loaded |-> {}]
       ELSE IF ifn1.CreateJavaVM = 0 /\ ifn1.GetDefaultJavaVMInitArgs = 0
       THEN [ret |-> FALSE, ifn |-> ifn1,
             err |-> << <<"Error: can't find JNI interfaces in: %s", jvmpath>> >>,
             loaded |-> {handle}]
       ELSE [ret |-> TRUE, ifn |-> ifn1, err |-> <<>>, loaded |-> {handle}]

\* Mutant: the missing-symbol path returns without its message.
LoadJavaVM_Silent(jvmpath, ifn) ==
    LET handle == LoadLibrary(jvmpath)
        ifn1 == [CreateJavaVM |-> GetProcAddress(handle, "JNI_CreateJavaVM"),
                 GetDefaultJavaVMInitArgs |->
                     GetProcAddress(handle, "JNI_GetDefaultJavaVMInitArgs")]
    IN IF handle = <<>>
       THEN [ret |-> FALSE, ifn |-> ifn, err |-> << <<"Error loading: %s", jvmpath>> >>,
             loaded |-> {}]
       ELSE IF ifn1.CreateJavaVM = 0 \/ ifn1.GetDefaultJavaVMInitArgs = 0
       THEN [ret |-> FALSE, ifn |-> ifn1, err |-> <<>>, loaded |-> {handle}]
       ELSE [ret |-> TRUE, ifn |-> ifn1, err |-> <<>>, loaded |-> {handle}]

LoadJavaVM(jvmpath, ifn) ==
    LET handle == LoadLibrary(jvmpath)
        \* Now get the function addresses
        ifn1 == [CreateJavaVM |-> GetProcAddress(handle, "JNI_CreateJavaVM"),
                 GetDefaultJavaVMInitArgs |->
                     GetProcAddress(handle, "JNI_GetDefaultJavaVMInitArgs")]
    IN IF handle = <<>>
       THEN [ret |-> FALSE, ifn |-> ifn, err |-> << <<"Error loading: %s", jvmpath>> >>,
             loaded |-> {}]
       ELSE IF ifn1.CreateJavaVM = 0 \/ ifn1.GetDefaultJavaVMInitArgs = 0
       THEN [ret |-> FALSE, ifn |-> ifn1,
             err |-> << <<"Error: can't find JNI interfaces in: %s", jvmpath>> >>,
             loaded |-> {handle}]
       ELSE [ret |-> TRUE, ifn |-> ifn1, err |-> <<>>, loaded |-> {handle}]

(***************************************************************************)
(* jlong arithmetic: 64-bit two's complement words as four 16-bit limbs,   *)
(* least significant first.  Multiplication wraps modulo 2^64 and division *)
(* truncates toward zero, as the build's __int64 operations do.            *)
(***************************************************************************)
Base == 2 ^ 16
Zero64 == <<0, 0, 0, 0>>

\* The word of an integer 0 <= n < 2^31.
FromInt(n) == <<n % Base, n \div Base, 0, 0>>

IsNeg64(v) == v[4] >= Base \div 2

\* v * k modulo 2^64, for a small k >= 0.
MulSmall(v, k) ==
    LET p1 == v[1] * k
        p2 == v[2] * k + (p1 \div Base)
        p3 == v[3] * k + (p2 \div Base)
        p4 == v[4] * k + (p3 \div Base)
    IN <<p1 % Base, p2 % Base, p3 % Base, p4 % Base>>

\* a - b modulo 2^64.
Sub64(a, b) ==
    LET d1 == a[1] - b[1]
        d2 == a[2] - b[2] - (IF d1 < 0 THEN 1 ELSE 0)
        d3 == a[3] - b[3] - (IF d2 < 0 THEN 1 ELSE 0)
        d4 == a[4] - b[4] - (IF d3 < 0 THEN 1 ELSE 0)
    IN <<d1 % Base, d2 % Base, d3 % Base, d4 % Base>>

Neg64(v) == Sub64(Zero64, v)
Abs64(v) == IF IsNeg64(v) THEN Neg64(v) ELSE v

\* a < b as unsigned words.
ULess64(a, b) ==
    \E i \in 1..4 : a[i] < b[i] /\ \A j \in (i + 1)..4 : a[j] = b[j]

Bit64(v, i) == (v[(i \div 16) + 1] \div (2 ^ (i % 16))) % 2

\* (v << 1) | b modulo 2^64.
Shl1(v, b) ==
    LET p1 == v[1] * 2 + b
        p2 == v[2] * 2 + (p1 \div Base)
        p3 == v[3] * 2 + (p2 \div Base)
        p4 == v[4] * 2 + (p3 \div Base)
    IN <<p1 % Base, p2 % Base, p3 % Base, p4 % Base>>

\* One step of shift-and-subtract division: bit i of n enters the remainder
\* qr[2] and the next quotient bit enters qr[1].
UDivStep(n, d, i, qr) ==
    With(Shl1(qr[2], Bit64(n, i)), LAMBDA r1 :
    IF ULess64(r1, d)
    THEN <<Shl1(qr[1], 0), r1>>
    ELSE <<Shl1(qr[1], 1), Sub64(r1, d)>>)

\* The steps for bits i down to lo.
RECURSIVE UDivBits(_, _, _, _, _)
UDivBits(n, d, i, lo, qr) ==
    IF i < lo THEN qr
    ELSE With(UDivStep(n, d, i, qr), LAMBDA s : UDivBits(n, d, i - 1, lo, s))

\* The steps for limbs l down to 1, sixteen bits each.
RECURSIVE UDivLimbs(_, _, _, _)
UDivLimbs(n, d, l, qr) ==
    IF l = 0 THEN qr
    ELSE With(UDivBits(n, d, 16 * l - 1, 16 * (l - 1), qr),
              LAMBDA s : UDivLimbs(n, d, l - 1, s))

\* a / b on jlong, truncating toward zero, for b # 0.
Div64(a, b) ==
    With(<<a, b>>, LAMBDA ab :
    With(UDivLimbs(Abs64(ab[1]), Abs64(ab[2]), 4, <<Zero64, Zero64>>)[1], LAMBDA q :
    IF IsNeg64(ab[1]) # IsNeg64(ab[2]) THEN Neg64(q) ELSE q))

(***************************************************************************)
(* The interval timer (java_md.c:279-307).                                 *)
(***************************************************************************)
\* Frequencies QueryPerformanceFrequency may report: 1, 1000000, 3579545,
\* 10000000, 9223372036854, 9223372036855, 2^62 and 2^63 - 1.
Frequencies ==
    { FromInt(1), FromInt(1000000), FromInt(3579545), FromInt(10000000),
      <<23286, 31696, 2147, 0>>, <<23287, 31696, 2147, 0>>,
      <<0, 0, 0, 16384>>, <<65535, 65535, 65535, 32767>> }

\* Values QueryPerformanceCounter may report.
Counts == { FromInt(1), FromInt(12345678), <<23286, 31696, 2147, 0>> }

\* Tick counts handed to Counter2Micros: the frequencies, 0, 3, 7, 15000000
\* and -1.
Ticks ==
    Frequencies \cup { Zero64, FromInt(3), FromInt(7), FromInt(15000000),
                       Neg64(FromInt(1)) }

\* Mutant: the frequency query is repeated while the counter is unavailable.
CounterGet_Retry ==
    /\ \E ok \in BOOLEAN, f \in Frequencies, count \in Counts :
        LET query == ~counterAvailable
            avail == IF query THEN ok ELSE counterAvailable
        IN /\ counterAvailable' = avail
           /\ counterFrequency' = IF query /\ ok THEN f ELSE counterFrequency
           /\ counterInitialized' = TRUE
           /\ qpfCalls' = IF query THEN qpfCalls + 1 ELSE qpfCalls
           /\ tcall' = [op |-> "CounterGet", arg |-> Zero64,
                        ret |-> IF ~avail THEN Zero64 ELSE count]
    /\ UNCHANGED lvars

CounterGet ==
    /\ \E ok \in BOOLEAN, f \in Frequencies, count \in Counts :
        LET query == ~counterInitialized
            \* counterAvailable = QueryPerformanceFrequency(&counterFrequency)
            avail == IF query THEN ok ELSE counterAvailable
        IN /\ counterAvailable' = avail
           /\ counterFrequency' = IF query /\ ok THEN f ELSE counterFrequency
           /\ counterInitialized' = TRUE
           /\ qpfCalls' = IF query THEN qpfCalls + 1 ELSE qpfCalls
           /\ tcall' = [op |-> "CounterGet", arg |-> Zero64,
                        ret |-> IF ~avail THEN Zero64 ELSE count]
    /\ UNCHANGED lvars

\* Mutant: the product is counts * 1000.
Counter2Micros_Millis(counts) ==
    IF ~counterAvailable \/ ~counterInitialized
    THEN Zero64
    ELSE Div64(MulSmall(counts, 1000), counterFrequency)

Counter2Micros(counts) ==
    IF ~counterAvailable \/ ~counterInitialized
    THEN Zero64
    ELSE Div64(MulSmall(MulSmall(counts, 1000), 1000), counterFrequency)

CallCounter2Micros ==
    /\ \E counts \in Ticks :
        tcall' = [op |-> "Counter2Micros", arg |-> counts, ret |-> Counter2Micros(counts)]
    /\ UNCHANGED <<counterAvailable, counterInitialized, counterFrequency, qpfCalls>>
    /\ UNCHANGED lvars

(***************************************************************************)
(* The environment the launcher runs in.                                   *)
(***************************************************************************)
\* Launcher paths, each with the directory its JRE files are placed under:
\* c:\a\b\j, c:\b\j, c:\j (a drive root) and \\s\h\b\j.
ExeDirs ==
    { <<<<"c", ":", "\\", "a", "\\", "b", "\\", "j">>, <<"c", ":", "\\", "a">>>>,
      <<<<"c", ":", "\\", "b", "\\", "j">>, <<"c", ":">>>>,
      <<<<"c", ":", "\\", "j">>, <<"c", ":">>>>,
      <<<<"\\", "\\", "s", "\\", "h", "\\", "b", "\\", "j">>, <<"\\", "\\", "s", "\\", "h">>>> }

\* c:\a\bin\hotspot\jvm.dll, c:\a\jre\bin\classic\jvm.dll and the decoy
\* c:\a\bin\jvm.dll.
JvmFiles ==
    { <<"c", ":", "\\", "a", "\\", "b", "i", "n", "\\", "h", "o", "t", "s", "p", "o", "t", "\\", "j", "v", "m", ".", "d", "l", "l">>,
      <<"c", ":", "\\", "a", "\\", "j", "r", "e", "\\", "b", "i", "n", "\\", "c", "l", "a", "s", "s", "i", "c", "\\", "j", "v", "m", ".", "d", "l", "l">>,
      <<"c", ":", "\\", "a", "\\", "b", "i", "n", "\\", "j", "v", "m", ".", "d", "l", "l">> }

JreHomes == { <<"c", ":", "\\", "a">>, <<"c", ":", "\\", "a", "\\", "j", "r", "e">> }
JvmTypes == { <<"h", "o", "t", "s", "p", "o", "t">>, <<"c", "l", "a", "s", "s", "i", "c">> }

Versions == { DOTRELEASE, <<"1", ".", "4">>, <<"1", ".", "3", ".", "1">>, <<"1", ".">> }

\* A string of n characters.
Filler(n) == [i \in 1..n |-> "z"]

RegValues(strings) ==
    { Absent, DWORD(<<"1", "0", "0", "0">>) } \cup { SZ(s) : s \in strings }

Registries ==
    { [rootOpens |-> FALSE, CurrentVersion |-> Absent, subkeys |-> {},
       JavaHome |-> Absent, MicroVersion |-> Absent] }
    \cup
    { [rootOpens |-> TRUE, CurrentVersion |-> cv, subkeys |-> {},
       JavaHome |-> Absent, MicroVersion |-> Absent] :
        cv \in RegValues(Versions \cup {Filler(MAXPATHLEN - 1)}) }
    \cup
    { [rootOpens |-> TRUE, CurrentVersion |-> cv, subkeys |-> Versions,
       JavaHome |-> jh, MicroVersion |-> mv] :
        cv \in RegValues(Versions),
        jh \in RegValues({ <<"d", ":", "\\", "r">>, Filler(MAXPATHLEN - 2), Filler(MAXPATHLEN - 1) }),
        mv \in RegValues({ <<"1">> }) }

Exports == { "JNI_CreateJavaVM", "JNI_GetDefaultJavaVMInitArgs" }

\* The loadable libraries: none, or c:\a\bin\hotspot\jvm.dll with some of
\* the two entry points.
Libraries ==
    { [p \in {} |-> {}] } \cup { [p \in { <<"c", ":", "\\", "a", "\\", "b", "i", "n", "\\", "h", "o", "t", "s", "p", "o", "t", "\\", "j", "v", "m", ".", "d", "l", "l">> } |-> e] : e \in SUBSET Exports }

JvmPaths == { <<"c", ":", "\\", "a", "\\", "b", "i", "n", "\\", "h", "o", "t", "s", "p", "o", "t", "\\", "j", "v", "m", ".", "d", "l", "l">>, <<"c", ":", "\\", "a", "\\", "j", "r", "e", "\\", "b", "i", "n", "\\", "c", "l", "a", "s", "s", "i", "c", "\\", "j", "v", "m", ".", "d", "l", "l">> }

NoCall ==
    [op |-> "none", ret |-> FALSE, args |-> <<>>, buf |-> <<>>, err |-> <<>>,
     out |-> <<>>, stats |-> <<>>, log |-> <<>>, ifn |-> NoFunctions]

TimerInit ==
    /\ counterAvailable = FALSE
    /\ counterInitialized = FALSE
    /\ counterFrequency = Zero64
    /\ qpfCalls = 0
    /\ tcall = [op |-> "none", arg |-> Zero64, ret |-> Zero64]

ProcessInit ==
    /\ handles = {}
    /\ badClose = FALSE
    /\ loaded = {}
    /\ call = NoCall

\* The environments of JRE discovery: every launcher path, local layout,
\* registry content and debug setting.
EnvJRE ==
    /\ \E xd \in ExeDirs, local \in SUBSET {BinJavaDll, JreBinJavaDll} :
        /\ exe = xd[1]
        /\ fs = { xd[2] \o f : f \in local }
    /\ reg \in Registries
    /\ debug \in BOOLEAN
    /\ dlls \in { [p \in {} |-> {}] }

\* The environments of JVM location and loading.
EnvJVM ==
    /\ exe = <<"c", ":", "\\", "a", "\\", "b", "\\", "j">>
    /\ fs \in SUBSET JvmFiles
    /\ reg \in { r \in Registries : ~r.rootOpens }
    /\ debug \in BOOLEAN
    /\ dlls \in Libraries

Init == TimerInit /\ ProcessInit /\ (EnvJRE \/ EnvJVM)

(***************************************************************************)
(* The launcher's entry points, each called on a fresh caller buffer.      *)
(***************************************************************************)
CallGetApplicationHome ==
    /\ \E r \in { GetApplicationHome(Garbage(MAXPATHLEN), MAXPATHLEN) } :
          call' = [NoCall EXCEPT !.op = "GetApplicationHome", !.ret = r.ret,
                                 !.buf = r.buf]
    /\ UNCHANGED <<exe, fs, reg, debug, dlls, handles, badClose, loaded>>
    /\ UNCHANGED tvars

CallGetJREPath ==
    /\ \E r \in { GetJREPath(Garbage(MAXPATHLEN), MAXPATHLEN,
                              [handles |-> handles, bad |-> badClose, log |-> <<>>]) } :
          /\ call' = [NoCall EXCEPT !.op = "GetJREPath", !.ret = r.ret, !.buf = r.buf,
                                    !.err = r.err, !.out = r.out, !.stats = r.stats,
                                    !.log = r.s.log]
          /\ handles' = r.s.handles
          /\ badClose' = r.s.bad
    /\ UNCHANGED <<exe, fs, reg, debug, dlls, loaded>>
    /\ UNCHANGED tvars

CallGetJVMPath ==
    /\ \E jrepath \in JreHomes, jvmtype \in JvmTypes :
        \E r \in { GetJVMPath(jrepath, jvmtype, Garbage(MAXPATHLEN), MAXPATHLEN) } :
           call' = [NoCall EXCEPT !.op = "GetJVMPath", !.ret = r.ret, !.buf = r.buf,
                                  !.args = <<jrepath, jvmtype>>, !.stats = r.stats]
    /\ UNCHANGED <<exe, fs, reg, debug, dlls, handles, badClose, loaded>>
    /\ UNCHANGED tvars

CallLoadJavaVM ==
    /\ \E jvmpath \in JvmPaths :
        \E r \in { LoadJavaVM(jvmpath, NoFunctions) } :
           /\ call' = [NoCall EXCEPT !.op = "LoadJavaVM", !.ret = r.ret,
                                     !.args = <<jvmpath>>, !.err = r.err,
                                     !.out = IF debug
                                             THEN << <<"JVM path is %s", jvmpath>> >>
                                             ELSE <<>>,
                                     !.ifn = r.ifn]
           /\ loaded' = loaded \cup r.loaded
    /\ UNCHANGED <<exe, fs, reg, debug, dlls, handles, badClose>>
    /\ UNCHANGED tvars

Next ==
    \/ CallGetApplicationHome
    \/ CallGetJREPath
    \/ CallGetJVMPath
    \/ CallLoadJavaVM

Spec == Init /\ [][Next]_vars

\* The timer alone, in one launcher environment.
InitTimer ==
    /\ TimerInit
    /\ ProcessInit
    /\ exe = <<"c", ":", "\\", "a", "\\", "b", "\\", "j">>
    /\ fs = {}
    /\ reg \in { r \in Registries : ~r.rootOpens }
    /\ debug = FALSE
    /\ dlls \in { [p \in {} |-> {}] }

NextTimer ==
    \/ CounterGet
    \/ CallCounter2Micros

SpecTimer == InitTimer /\ [][NextTimer]_vars

(***************************************************************************)
(* Properties.  The expected values are computed here from the inputs, by  *)
(* path segments, and not through the operators above.                     *)
(***************************************************************************)
\* The positions of the backslashes of a path: one per segment before the
\* file name.
Separators(s) == { i \in 1..Len(s) : s[i] = BS }

Last(S) == CHOOSE x \in S : \A y \in S : y <= x

\* A path without its last two segments.
StripTwo(s) == SubSeq(s, 1, Last(Separators(s) \ {Last(Separators(s))}) - 1)

HasHome == Cardinality(Separators(exe)) >= 2

LocalBin == HasHome /\ (StripTwo(exe) \o <<"\\", "b", "i", "n", "\\", "j", "a", "v", "a", ".", "d", "l", "l">>) \in fs
LocalJre == HasHome /\ (StripTwo(exe) \o <<"\\", "j", "r", "e", "\\", "b", "i", "n", "\\", "j", "a", "v", "a", ".", "d", "l", "l">>) \in fs

\* The number of entries of the registry log that satisfy Test.
CountLog(Test(_)) == Cardinality({ i \in DOMAIN call.log : Test(call.log[i]) })

OpensOf(node) == CountLog(LAMBDA e : e[1] = "RegOpenKeyEx" /\ e[2] = node)
QueriesOf(name) == CountLog(LAMBDA e : e[1] = "RegQueryValueEx" /\ e[2] = name)

\* A registry value that GetStringFromRegistry can read into size bytes.
Readable(v, size) == v.type = "REG_SZ" /\ Len(v.data) < size
StringOf(v) == SubSeq(v.data, 1, Len(v.data) - 1)

\* The registry holds a public JRE the probe accepts.
RegistryGood ==
    /\ reg.rootOpens
    /\ Readable(reg.CurrentVersion, MAXPATHLEN)
    /\ StringOf(reg.CurrentVersion) = <<"1", ".", "3">>
    /\ <<"1", ".", "3">> \in reg.subkeys
    /\ Readable(reg.JavaHome, MAXPATHLEN)

\* C1: GetJREPath prefers <apphome>\bin\java.dll: when it exists the result
\* is true with path = <apphome>, whether or not <apphome>\jre\bin\java.dll
\* exists; only when it is absent and <apphome>\jre\bin\java.dll exists is
\* the result true with path = <apphome>\jre.
C1_LocalPriority ==
    call.op = "GetJREPath" =>
        /\ LocalBin => call.ret /\ CStr(call.buf) = StripTwo(exe)
        /\ (~LocalBin /\ LocalJre) =>
               call.ret /\ CStr(call.buf) = StripTwo(exe) \o <<"\\", "j", "r", "e">>

C1_Witness ==
    /\ call.op = "GetJREPath"
    /\ LocalBin /\ LocalJre
    /\ call.ret
    /\ CStr(call.buf) = StripTwo(exe)

\* C2: when neither local layout exists (or there is no application home)
\* GetJREPath consults the registry probe exactly once, and a successful
\* probe makes the path exactly the registry's JavaHome string; when a
\* local layout exists the registry is not consulted at all.
C2_RegistryVerbatim ==
    call.op = "GetJREPath" =>
        IF LocalBin \/ LocalJre
        THEN call.log = <<>>
        ELSE /\ OpensOf("root") = 1
             /\ call.ret <=> RegistryGood
             /\ call.ret => CStr(call.buf) = StringOf(reg.JavaHome)

C2_Witness ==
    /\ call.op = "GetJREPath"
    /\ HasHome /\ ~LocalBin /\ ~LocalJre
    /\ call.ret
    /\ CStr(call.buf) = <<"d", ":", "\\", "r">>
    /\ OpensOf("root") = 1

\* C3: GetJVMPath builds the single candidate <home>\bin\<variant>\jvm.dll,
\* returns true exactly when that file exists, leaves that path in the
\* output buffer, and looks nowhere else.
C3_SingleCandidate ==
    call.op = "GetJVMPath" =>
        LET candidate == call.args[1] \o <<"\\", "b", "i", "n", "\\">> \o call.args[2] \o <<"\\", "j", "v", "m", ".", "d", "l", "l">>
        IN /\ call.ret <=> candidate \in fs
           /\ CStr(call.buf) = candidate
           /\ call.stats = <<candidate>>

C3_Witness ==
    /\ call.op = "GetJVMPath"
    /\ call.ret
    /\ CStr(call.buf) = <<"c", ":", "\\", "a", "\\", "b", "i", "n", "\\", "h", "o", "t", "s", "p", "o", "t", "\\", "j", "v", "m", ".", "d", "l", "l">>
    /\ <<"c", ":", "\\", "a", "\\", "b", "i", "n", "\\", "j", "v", "m", ".", "d", "l", "l">> \in fs

\* C4: LoadJavaVM returns true exactly when the library was mapped and both
\* JNI_CreateJavaVM and JNI_GetDefaultJavaVMInitArgs resolved to non-null
\* addresses; an unmapped library or a missing symbol gives false.
C4_NoPartialLoad ==
    call.op = "LoadJavaVM" =>
        /\ call.ret <=> /\ call.args[1] \in DOMAIN dlls
                        /\ "JNI_CreateJavaVM" \in dlls[call.args[1]]
                        /\ "JNI_GetDefaultJavaVMInitArgs" \in dlls[call.args[1]]
        /\ call.ret => /\ call.ifn.CreateJavaVM # 0
                       /\ call.ifn.GetDefaultJavaVMInitArgs # 0
                       /\ call.args[1] \in loaded

C4_Witness ==
    /\ call.op = "LoadJavaVM"
    /\ call.args[1] \in DOMAIN dlls
    /\ dlls[call.args[1]] = {"JNI_CreateJavaVM"}
    /\ ~call.ret
    /\ call.ifn.CreateJavaVM # 0

\* The registry probe ran and read a CurrentVersion other than "1.3".
VersionMismatch ==
    /\ call.op = "GetJREPath"
    /\ OpensOf("root") = 1
    /\ reg.rootOpens
    /\ Readable(reg.CurrentVersion, MAXPATHLEN)
    /\ StringOf(reg.CurrentVersion) # <<"1", ".", "3">>

\* C5: when CurrentVersion is not exactly "1.3" the registry probe fails, its
\* error line names the actual and the required value, the version child
\* key is never opened and JavaHome is never read: the output buffer keeps
\* what GetApplicationHome left in it.
C5_VersionMismatch ==
    VersionMismatch =>
        /\ ~call.ret
        /\ call.err[1] = <<ErrMismatch, StringOf(reg.CurrentVersion), <<"1", ".", "3">>>>
        /\ OpensOf("sub") = 0
        /\ QueriesOf("JavaHome") = 0
        /\ CStr(call.buf) = IF HasHome THEN StripTwo(exe) ELSE <<>>

C5_Witness ==
    /\ VersionMismatch
    /\ StringOf(reg.CurrentVersion) = <<"1", ".", "3", ".", "1">>
    /\ Readable(reg.JavaHome, MAXPATHLEN)
    /\ ~call.ret

\* C6: after every call the registry handles open are those open before it
\* (none), each handle the probe opened was closed exactly once, and no
\* handle that was not open was closed.
C6_HandlesReleased ==
    /\ handles = {}
    /\ ~badClose
    /\ \A h \in 1..2 :
           CountLog(LAMBDA e : e[1] = "RegCloseKey" /\ e[3] = h)
               = CountLog(LAMBDA e : e[1] = "RegOpenKeyEx" /\ e[3] = h)

C6_Witness ==
    /\ call.op = "GetJREPath"
    /\ ~call.ret
    /\ OpensOf("sub") = 1
    /\ QueriesOf("JavaHome") = 1
    /\ CountLog(LAMBDA e : e[1] = "RegCloseKey") = 2
    /\ handles = {}

\* C7 as stated: every failure of a boolean entry point writes at least one
\* error line to stderr.
C7_EveryFailureReported ==
    (call.op # "none" /\ ~call.ret) => Len(call.err) >= 1

\* C7 amended: a failure of GetJREPath writes the registry probe's error line
\* and then its own, a failure of LoadJavaVM writes one line, and a failure
\* of GetJVMPath or GetApplicationHome writes nothing.
C7_FailuresReportedByCaller ==
    ~call.ret =>
        /\ call.op = "GetJREPath" =>
               /\ Len(call.err) = 2
               /\ call.err[2] = ErrNoJavaDll
               /\ call.err[1] # ErrNoJavaDll
        /\ call.op = "LoadJavaVM" => Len(call.err) = 1
        /\ call.op \in {"GetJVMPath", "GetApplicationHome"} => call.err = <<>>

C7_Witness ==
    /\ call.op = "LoadJavaVM"
    /\ call.args[1] \in DOMAIN dlls
    /\ ~call.ret
    /\ Len(call.err) = 1

\* C8: GetApplicationHome returns true with the launcher path less its last
\* two segments when at least two segments precede the file name, and
\* false with an empty buffer otherwise.
C8_StripTwoSegments ==
    call.op = "GetApplicationHome" =>
        IF HasHome
        THEN call.ret /\ CStr(call.buf) = StripTwo(exe)
        ELSE ~call.ret /\ call.buf[1] = NUL

C8_Witness ==
    /\ call.op = "GetApplicationHome"
    /\ Cardinality(Separators(exe)) = 2
    /\ call.ret
    /\ CStr(call.buf) = <<"c", ":">>

\* The frequency query was made and failed.
QueryFailed == counterInitialized /\ ~counterAvailable

\* C9: the frequency is queried once, by the first CounterGet; once that
\* query has failed it is never repeated and every CounterGet and every
\* Counter2Micros returns 0.
C9_FailedQueryIsPermanent ==
    /\ [](qpfCalls = IF counterInitialized THEN 1 ELSE 0)
    /\ [](QueryFailed => tcall.ret = Zero64)
    /\ [][QueryFailed => (QueryFailed' /\ qpfCalls' = qpfCalls)]_vars

C9_Witness ==
    /\ QueryFailed
    /\ tcall.op = "Counter2Micros"
    /\ tcall.arg = FromInt(15000000)
    /\ tcall.ret = Zero64

\* Counter2Micros was called with the counter frequency as its tick count.
OneSecond ==
    /\ tcall.op = "Counter2Micros"
    /\ counterAvailable
    /\ tcall.arg = counterFrequency

\* 9223372036854, the largest frequency whose product with 1000000 fits a
\* jlong.
LargestExact == <<23286, 31696, 2147, 0>>

\* C10 as stated: Counter2Micros(frequency) is 1000000 for every frequency.
C10_OneSecondAlways ==
    OneSecond => tcall.ret = FromInt(1000 * 1000)

\* C10 amended: Counter2Micros(frequency) is 1000000 for every frequency
\* from 1 to 9223372036854, where the product with 1000000 fits a jlong.
C10_OneSecondInRange ==
    (OneSecond /\ ~ULess64(LargestExact, counterFrequency)) =>
        tcall.ret = FromInt(1000 * 1000)

C10_Witness ==
    /\ OneSecond
    /\ counterFrequency = LargestExact
    /\ tcall.ret = FromInt(1000 * 1000)

====
